---- MODULE Spec2Model ----
(***************************************************************************)
(* State-machine model of resources/recordResource.py: the RecordResource  *)
(* handlers (get, post, put, delete) over the Record store.                *)
(*                                                                         *)
(* Encoding of Python values:                                              *)
(*   - an optional value is a sequence of length 0 (None) or 1 (the value) *)
(*   - a str is a sequence of one-character strings, so that lower(),      *)
(*     capitalize() and strip() are computed character by character        *)
(*   - a float coordinate is an integer number of degrees                  *)
(***************************************************************************)
EXTENDS Integers, Sequences, FiniteSets, TLC

VARIABLES records, nextId, now, resp

vars == <<records, nextId, now, resp>>

-----------------------------------------------------------------------------
(* Bounds of the explored workloads *)

NumUsers == 2
MaxRecords == 2
MaxTime == 2

-----------------------------------------------------------------------------
(* Python values *)

None == <<>>
Some(v) == <<v>>
Val(o) == o[1]

UpperLetters == <<"A","B","C","D","E","F","G","H","I","J","K","L","M",
                  "N","O","P","Q","R","S","T","U","V","W","X","Y","Z">>
LowerLetters == <<"a","b","c","d","e","f","g","h","i","j","k","l","m",
                  "n","o","p","q","r","s","t","u","v","w","x","y","z">>

LowerChar(c) ==
    IF \E i \in 1..Len(UpperLetters) : UpperLetters[i] = c
    THEN LowerLetters[CHOOSE i \in 1..Len(UpperLetters) : UpperLetters[i] = c]
    ELSE c

UpperChar(c) ==
    IF \E i \in 1..Len(LowerLetters) : LowerLetters[i] = c
    THEN UpperLetters[CHOOSE i \in 1..Len(LowerLetters) : LowerLetters[i] = c]
    ELSE c

\* str.lower()
Lower(s) == [i \in 1..Len(s) |-> LowerChar(s[i])]

\* str.capitalize(): first character upper-cased, the rest lower-cased
Capitalize(s) == [i \in 1..Len(s) |-> IF i = 1 THEN UpperChar(s[i]) ELSE LowerChar(s[i])]

\* str.strip(): leading and trailing whitespace removed
Strip(s) ==
    LET keep == {i \in 1..Len(s) : s[i] # " "}
    IN  IF keep = {} THEN <<>>
        ELSE SubSeq(s, CHOOSE i \in keep : \A j \in keep : i <= j,
                       CHOOSE i \in keep : \A j \in keep : j <= i)

\* Python truthiness of an optional str / optional float
TruthyStr(o) == o # None /\ Val(o) # <<>>
TruthyNum(o) == o # None /\ Val(o) # 0

RedFlag == <<"R","e","d","-","F","l","a","g">>
Intervention == <<"I","n","t","e","r","v","e","n","t","i","o","n">>

LockedStatuses == {"under investigation", "rejected", "resolved"}
Statuses == {"pending"} \cup LockedStatuses

-----------------------------------------------------------------------------
(* Identity provider and User table *)

\* JWT identities are decimal numerals
Identities == {<<"1">>, <<"2">>, <<"3">>, <<"4">>, <<"5">>}
Digits == <<"0","1","2","3","4","5","6","7","8","9">>

\* int(user_id)
IntOf(ident) == (CHOOSE i \in 1..Len(Digits) : Digits[i] = ident[1]) - 1

Callers == {c \in Identities : IntOf(c) \in 1..NumUsers}

\* the User table: the first user is the admin, the others are plain users
users == [u \in 1..NumUsers |-> [role |-> IF u = 1 THEN "admin" ELSE "user"]]

is_admin(user_id) ==
    /\ IntOf(user_id) \in DOMAIN users
    /\ users[IntOf(user_id)].role = "admin"

-----------------------------------------------------------------------------
(* Media uploader and uploaded file parts *)

\* a FileStorage is falsy when its filename is empty
FileTruthy(file) == file.filename # ""

\* cloudinary.uploader.upload(file)['secure_url']
SecureUrl(file) == [url |-> file.filename]

\* the loop "for file in uploaded_files: if file: image_urls.append(...)"
RECURSIVE UploadAll(_)
UploadAll(files) ==
    IF files = <<>> THEN <<>>
    ELSE IF FileTruthy(Head(files))
         THEN <<SecureUrl(Head(files))>> \o UploadAll(Tail(files))
         ELSE UploadAll(Tail(files))

\* an upload can raise only if some upload is attempted
Uploads(files) == \E i \in 1..Len(files) : FileTruthy(files[i])

-----------------------------------------------------------------------------
(* Responses *)

Idle == [op |-> "idle"]

Iso(t) == [iso |-> t]

format_record(id, r) ==
    [id |-> id,
     type |-> r.type,
     title |-> r.title,
     description |-> r.description,
     latitude |-> r.latitude,
     longitude |-> r.longitude,
     images |-> IF r.images = <<>> THEN [json |-> "string", items |-> <<>>]
                ELSE [json |-> "array", items |-> r.images],
     status |-> r.status,
     created_at |-> IF r.created_at # None THEN Some(Iso(Val(r.created_at))) ELSE None,
     updated_at |-> IF r.updated_at # None THEN Some(Iso(Val(r.updated_at))) ELSE None,
     user_id |-> r.user_id]

Message(m) == [kind |-> "message", message |-> m]

\* A request together with its response: the operation and its inputs (fail
\* names the call that raised, if any), the status code and body returned,
\* and the record object the handler held when it returned (obj).
Reply(op, caller, id, form, files, fail, query, code, body, obj) ==
    [op |-> op, caller |-> caller, id |-> id, form |-> form, files |-> files,
     fail |-> fail, query |-> query, code |-> code, body |-> body, obj |-> obj]

NoForm == [type |-> None, title |-> None, description |-> None,
           latitude |-> None, longitude |-> None, status |-> None, user_id |-> None]
NoQuery == [page |-> None, per_page |-> None]

-----------------------------------------------------------------------------
(* RecordResource.get *)

\* request.args.get('page', 1, type=int)
PageOf(query) == IF query.page # None THEN Val(query.page) ELSE 1

\* min(request.args.get('per_page', 10, type=int), 100)
PerPageOf(query) ==
    LET asked == IF query.per_page # None THEN Val(query.per_page) ELSE 10
    IN  IF asked < 100 THEN asked ELSE 100

\* Record.query.filter_by(user_id=user_id): the ids of the caller's records
OwnIds(caller) == {i \in DOMAIN records : records[i].user_id = IntOf(caller)}

\* the rows of a query without ORDER BY, in the order the store returns them
Listing(ids, order) ==
    [k \in 1..Cardinality(ids) |-> format_record(order[k], records[order[k]])]

Orders(ids) ==
    {o \in [1..Cardinality(ids) -> ids] : \A a, b \in 1..Cardinality(ids) : a # b => o[a] # o[b]}

\* "if record_id:" is false for a missing id and for id 0
GetOne(caller, record_id) ==
    IF Val(record_id) \notin DOMAIN records
    THEN [code |-> 404, body |-> Message("Record not found")]
    ELSE IF records[Val(record_id)].user_id # IntOf(caller) /\ ~is_admin(caller)
         THEN [code |-> 403, body |-> Message("Unauthorized access")]
         ELSE [code |-> 200,
               body |-> [kind |-> "record",
                         record |-> format_record(Val(record_id), records[Val(record_id)])]]

\* the list branch: the return statement sits inside the non-admin branch, so
\* for an admin the method falls off its end and returns None (200, null)
GetList(caller, order) ==
    IF is_admin(caller)
    THEN [code |-> 200, body |-> [kind |-> "null"]]
    ELSE [code |-> 200, body |-> [kind |-> "list", records |-> Listing(OwnIds(caller), order)]]

Get(caller, record_id, query) ==
    /\ resp = Idle
    /\ \E order \in Orders(OwnIds(caller)) :
         LET page == PageOf(query)
             per_page == PerPageOf(query)
             out == IF TruthyNum(record_id) THEN GetOne(caller, record_id)
                    ELSE GetList(caller, order)
         IN  resp' = Reply("GET", caller, record_id, NoForm, <<>>, "none", query,
                           out.code, out.body, None)
    /\ UNCHANGED <<records, nextId, now>>

-----------------------------------------------------------------------------
(* RecordResource.post *)

InLatUpperOnly(x) == x <= 90

InLat(x) == -90 <= x /\ x <= 90
InLng(x) == -180 <= x /\ x <= 180

NewRecordClientStatus(caller, form, files, t) ==
    [type |-> Val(form.type),
     title |-> Strip(IF form.title # None THEN Val(form.title) ELSE <<>>),
     description |-> Strip(IF form.description # None THEN Val(form.description) ELSE <<>>),
     latitude |-> form.latitude,
     longitude |-> form.longitude,
     images |-> UploadAll(files),
     status |-> IF form.status # None THEN Val(form.status) ELSE "pending",
     user_id |-> IntOf(caller),
     created_at |-> Some(t),
     updated_at |-> Some(t)]

\* the Record(...) constructed at lines 104-115
NewRecord(caller, form, files, t) ==
    [type |-> Val(form.type),
     title |-> Strip(IF form.title # None THEN Val(form.title) ELSE <<>>),
     description |-> Strip(IF form.description # None THEN Val(form.description) ELSE <<>>),
     latitude |-> form.latitude,
     longitude |-> form.longitude,
     images |-> UploadAll(files),
     status |-> "pending",
     user_id |-> IntOf(caller),
     created_at |-> Some(t),
     updated_at |-> Some(t)]

\* the outcome of post: status code, body, and the record committed (if any)
PostOutcome(caller, form, files, fail) ==
    IF form.type = None \/ Val(form.type) \notin {RedFlag, Intervention}
    THEN [code |-> 400, body |-> Message("Type must be Red-Flag or Intervention"), commit |-> FALSE]
    ELSE IF form.latitude # None /\ ~InLat(Val(form.latitude))
    THEN [code |-> 400, body |-> Message("Invalid latitude"), commit |-> FALSE]
    ELSE IF form.longitude # None /\ ~InLng(Val(form.longitude))
    THEN [code |-> 400, body |-> Message("Invalid longitude"), commit |-> FALSE]
    ELSE IF fail = "upload" \/ fail = "commit"
    THEN [code |-> 500, body |-> Message("Error creating record"), commit |-> FALSE]
    ELSE [code |-> 201,
          body |-> [kind |-> "created",
                    record |-> format_record(nextId, NewRecord(caller, form, files, now))],
          commit |-> TRUE]

Post(caller, form, files, fail) ==
    /\ resp = Idle
    /\ fail = "upload" => Uploads(files)
    /\ LET out == PostOutcome(caller, form, files, fail)
       IN  /\ resp' = Reply("POST", caller, None, form, files, fail, NoQuery, out.code, out.body,
                            IF out.commit THEN Some(NewRecord(caller, form, files, now)) ELSE None)
           /\ IF out.commit
              THEN /\ records' = [i \in DOMAIN records \cup {nextId} |->
                                    IF i = nextId THEN NewRecord(caller, form, files, now)
                                    ELSE records[i]]
                   /\ nextId' = nextId + 1
                   /\ now' = now + 1
              ELSE UNCHANGED <<records, nextId, now>>

-----------------------------------------------------------------------------
(* Checks shared by put and delete *)

NotOwnerUnlessAdmin(rec, caller) == rec.user_id # IntOf(caller) /\ ~is_admin(caller)

\* "record.user_id != int(user_id)": no exemption for admins
NotOwner(rec, caller) == rec.user_id # IntOf(caller)

LockedUnlessResolved(rec) == rec.status \in {"under investigation", "rejected"}

\* "record.status in ['under investigation', 'rejected', 'resolved']"
Locked(rec) == rec.status \in LockedStatuses

-----------------------------------------------------------------------------
(* RecordResource.put *)

CanonicalTypeAsGiven(record_type) == record_type

\* line 150: the canonical spelling stored for an accepted type
CanonicalType(record_type) ==
    IF Lower(record_type) = Lower(Intervention) THEN Capitalize(record_type) ELSE RedFlag

\* line 148: the type is accepted case-insensitively
TypeAccepted(record_type) == Lower(record_type) \in {Lower(RedFlag), Lower(Intervention)}

\* line 157: all([record_type, title, description, latitude, longitude])
AllPresent(form) ==
    /\ TruthyStr(form.type)
    /\ TruthyStr(form.title)
    /\ TruthyStr(form.description)
    /\ TruthyNum(form.latitude)
    /\ TruthyNum(form.longitude)

\* lines 172-179: the image list after the upload block
NewImages(old, files) == IF files # <<>> THEN UploadAll(files) ELSE old

\* The body of put from line 145 on, applied to the loaded record object:
\* the status code, the state of the record object when the handler returns
\* (obj) and whether the session was committed.
PutOutcome(id, rec, form, files, fail, t) ==
    LET typed == IF TruthyStr(form.type)
                 THEN [rec EXCEPT !.type = CanonicalType(Val(form.type))] ELSE rec
        withLat == [typed EXCEPT !.latitude = form.latitude]
        withLng == [withLat EXCEPT !.longitude = form.longitude]
        withText == [withLng EXCEPT !.title = Strip(Val(form.title)),
                                    !.description = Strip(Val(form.description))]
        final == [withText EXCEPT !.images = NewImages(rec.images, files),
                                  !.updated_at = Some(t)]
    IN  IF TruthyStr(form.type) /\ ~TypeAccepted(Val(form.type))
        THEN [code |-> 400, body |-> Message("Invalid record type"),
              obj |-> rec, commit |-> FALSE]
        ELSE IF ~AllPresent(form)
        THEN [code |-> 400, body |-> Message("All fields are required"),
              obj |-> typed, commit |-> FALSE]
        ELSE IF ~InLat(Val(form.latitude))
        THEN [code |-> 400, body |-> Message("Invalid latitude"),
              obj |-> typed, commit |-> FALSE]
        ELSE IF ~InLng(Val(form.longitude))
        THEN [code |-> 400, body |-> Message("Invalid longitude"),
              obj |-> withLat, commit |-> FALSE]
        ELSE IF fail = "upload" \/ fail = "commit"
        THEN [code |-> 500, body |-> Message("Error updating record"),
              obj |-> rec, commit |-> FALSE]
        ELSE [code |-> 200,
              body |-> [kind |-> "updated", record |-> format_record(id, final)],
              obj |-> final, commit |-> TRUE]

PersistedAlways(old, out) == out.obj

\* What the store holds once the request is over: the record object if the
\* session was committed (line 182), the stored row otherwise (the pending
\* changes of the session are rolled back or discarded with it).
Persisted(old, out) == IF out.commit THEN out.obj ELSE old

Put(caller, record_id, form, files, fail) ==
    /\ resp = Idle
    /\ fail = "upload" => Uploads(files)
    /\ IF record_id \notin DOMAIN records
       THEN /\ resp' = Reply("PUT", caller, Some(record_id), form, files, fail, NoQuery,
                             404, Message("Record not found"), None)
            /\ UNCHANGED <<records, nextId, now>>
       ELSE IF NotOwner(records[record_id], caller)
       THEN /\ resp' = Reply("PUT", caller, Some(record_id), form, files, fail, NoQuery,
                             403, Message("Unauthorized to edit this record"), None)
            /\ UNCHANGED <<records, nextId, now>>
       ELSE IF Locked(records[record_id])
       THEN /\ resp' = Reply("PUT", caller, Some(record_id), form, files, fail, NoQuery,
                             400, Message("Cannot edit record with current status"), None)
            /\ UNCHANGED <<records, nextId, now>>
       ELSE LET out == PutOutcome(record_id, records[record_id], form, files, fail, now)
            IN  /\ resp' = Reply("PUT", caller, Some(record_id), form, files, fail, NoQuery,
                                 out.code, out.body, Some(out.obj))
                /\ records' = [records EXCEPT ![record_id] = Persisted(@, out)]
                /\ now' = IF out.commit THEN now + 1 ELSE now
                /\ UNCHANGED nextId

-----------------------------------------------------------------------------
(* RecordResource.delete *)

Delete(caller, record_id, fail) ==
    /\ resp = Idle
    /\ fail # "upload"
    /\ IF record_id \notin DOMAIN records
       THEN /\ resp' = Reply("DELETE", caller, Some(record_id), NoForm, <<>>, fail, NoQuery,
                             404, Message("Record not found"), None)
            /\ UNCHANGED records
       ELSE IF NotOwner(records[record_id], caller)
       THEN /\ resp' = Reply("DELETE", caller, Some(record_id), NoForm, <<>>, fail, NoQuery,
                             403, Message("Unauthorized to delete this record"), None)
            /\ UNCHANGED records
       ELSE IF Locked(records[record_id])
       THEN /\ resp' = Reply("DELETE", caller, Some(record_id), NoForm, <<>>, fail, NoQuery,
                             400, Message("Cannot delete record with current status"), None)
            /\ UNCHANGED records
       ELSE IF fail = "commit"
       THEN /\ resp' = Reply("DELETE", caller, Some(record_id), NoForm, <<>>, fail, NoQuery,
                             500, Message("Error deleting record"), None)
            /\ UNCHANGED records
       ELSE /\ resp' = Reply("DELETE", caller, Some(record_id), NoForm, <<>>, fail, NoQuery,
                             200, Message("Record deleted successfully"), None)
            /\ records' = [i \in DOMAIN records \ {record_id} |-> records[i]]
    /\ UNCHANGED <<nextId, now>>

-----------------------------------------------------------------------------
(* Environment *)

\* A record's status is changed outside RecordResource (status review).
SetStatus(record_id, status) ==
    /\ resp = Idle
    /\ record_id \in DOMAIN records
    /\ records[record_id].status # status
    /\ records' = [records EXCEPT ![record_id].status = status]
    /\ UNCHANGED <<nextId, now, resp>>

\* The response leaves; the next request can be handled.
Deliver ==
    /\ resp # Idle
    /\ resp' = Idle
    /\ UNCHANGED <<records, nextId, now>>

-----------------------------------------------------------------------------
(* Request inputs *)

Str_a == <<" ","a"," ">>
Str_d == <<"d"," ">>

BaseForm == [type |-> Some(RedFlag), title |-> Some(Str_a), description |-> Some(Str_d),
             latitude |-> Some(45), longitude |-> Some(90), status |-> None, user_id |-> None]

TypeInputs == {None, Some(<<>>), Some(Intervention),
               Some(<<"I","N","T","E","R","V","E","N","T","I","O","N">>),
               Some(<<"r","e","d","-","f","l","a","g">>),
               Some(<<"b","r","i","b","e">>)}
TitleInputs == {None, Some(<<>>), Some(<<" ">>)}
DescriptionInputs == {None, Some(<<>>)}
LatInputs == {None, Some(-91), Some(-90), Some(0), Some(90), Some(91)}
LngInputs == {None, Some(-181), Some(-180), Some(0), Some(180), Some(181)}

\* a complete valid form, and the forms that differ from it in the type, the
\* title, the description, the coordinates, or a client-supplied status
Forms ==
    {BaseForm}
    \cup {[BaseForm EXCEPT !.type = x] : x \in TypeInputs}
    \cup {[BaseForm EXCEPT !.title = x] : x \in TitleInputs}
    \cup {[BaseForm EXCEPT !.description = x] : x \in DescriptionInputs}
    \cup {[BaseForm EXCEPT !.latitude = x] : x \in LatInputs}
    \cup {[BaseForm EXCEPT !.longitude = x] : x \in LngInputs}
    \cup {[BaseForm EXCEPT !.latitude = Some(0), !.longitude = Some(0)]}
    \cup {[BaseForm EXCEPT !.type = Some(Intervention), !.latitude = Some(120)]}
    \cup {[BaseForm EXCEPT !.status = Some("resolved"), !.user_id = Some(<<"1">>)]}

NoFile == [filename |-> ""]
FileA == [filename |-> "a.jpg"]
FileB == [filename |-> "b.jpg"]

FileLists == {<<>>, <<NoFile>>, <<FileA>>, <<FileB, FileA>>, <<FileA, NoFile, FileB>>}

Failures == {"none", "upload", "commit"}

Queries == {NoQuery, [page |-> Some(2), per_page |-> Some(1)],
            [page |-> None, per_page |-> Some(500)]}

-----------------------------------------------------------------------------
Init ==
    /\ records = <<>>
    /\ nextId = 1
    /\ now = 0
    /\ resp = Idle

\* The workloads stop the store's id counter and the clock at their bounds: a
\* request that would commit beyond them is not explored, a request that is
\* refused is.

\* Access workload: every caller and record id, complete and incomplete forms
AccessForms == {BaseForm, [BaseForm EXCEPT !.latitude = None]}

AccessIds == 0..MaxRecords + 1

NextAccess ==
    \/ /\ resp = Idle
       /\ \E c \in Callers, id \in {None} \cup {Some(i) : i \in AccessIds}, q \in Queries :
            Get(c, id, q)
    \/ /\ resp = Idle
       /\ \E c \in Callers, f \in AccessForms : Post(c, f, <<>>, "none")
       /\ nextId' <= MaxRecords + 1
       /\ now' <= MaxTime
    \/ /\ resp = Idle
       /\ \E c \in Callers, id \in AccessIds, f \in AccessForms : Put(c, id, f, <<>>, "none")
       /\ now' <= MaxTime
    \/ /\ resp = Idle
       /\ \E c \in Callers, id \in AccessIds, fail \in Failures : Delete(c, id, fail)
    \/ /\ resp = Idle
       /\ \E id \in AccessIds, s \in Statuses : SetStatus(id, s)
    \/ Deliver

SpecAccess == Init /\ [][NextAccess]_vars

\* Field workload: one record at a time; every form without files, and the
\* complete form with every file list and every failure
Payloads ==
    {<<f, <<>>, "none">> : f \in Forms}
    \cup {<<BaseForm, fs, fail>> : fs \in FileLists, fail \in Failures}
    \cup {<<[BaseForm EXCEPT !.type = Some(Intervention), !.longitude = Some(181)], <<FileB>>, "none">>}

Next ==
    \/ /\ resp = Idle
       /\ \E c \in Callers, id \in {None} \cup {Some(i) : i \in DOMAIN records \cup {0}}, q \in Queries :
            Get(c, id, q)
    \/ /\ resp = Idle /\ DOMAIN records = {}
       /\ \E c \in Callers, p \in Payloads : Post(c, p[1], p[2], p[3])
       /\ now' <= MaxTime
    \/ /\ resp = Idle
       /\ \E c \in Callers, id \in DOMAIN records \cup {nextId}, p \in Payloads :
            Put(c, id, p[1], p[2], p[3])
       /\ now' <= MaxTime
    \/ /\ resp = Idle
       /\ \E c \in Callers, id \in DOMAIN records \cup {nextId}, fail \in Failures :
            Delete(c, id, fail)
    \/ /\ resp = Idle
       /\ \E id \in DOMAIN records, s \in Statuses : SetStatus(id, s)
    \/ Deliver

Spec == Init /\ [][Next]_vars

-----------------------------------------------------------------------------
(* Properties *)

\* the request just answered is `op` on an existing record
OnExisting(op) ==
    /\ resp'.op = op
    /\ Val(resp'.id) \in DOMAIN records

\* ... by the owner of that record, while its status does not lock it
ByOwnerUnlocked(op) ==
    /\ OnExisting(op)
    /\ records[Val(resp'.id)].user_id = IntOf(resp'.caller)
    /\ records[Val(resp'.id)].status \notin {"under investigation", "rejected", "resolved"}

LatOutOfRange(form) ==
    form.latitude # None /\ (Val(form.latitude) < -90 \/ Val(form.latitude) > 90)

LngOutOfRange(form) ==
    form.longitude # None /\ (Val(form.longitude) < -180 \/ Val(form.longitude) > 180)

\* C1: a PUT or DELETE on an existing record by a caller who is not its owner
\* returns 403, admin or not, and leaves the store as it was.
C1_NonOwnerForbidden ==
    [][ ((OnExisting("PUT") \/ OnExisting("DELETE"))
            /\ records[Val(resp'.id)].user_id # IntOf(resp'.caller))
        => (resp'.code = 403 /\ records' = records) ]_vars

\* an admin has been refused the update of another user's record
C1_Witness ==
    /\ resp.op = "PUT"
    /\ resp.code = 403
    /\ is_admin(resp.caller)
    /\ Val(resp.id) \in DOMAIN records
    /\ records[Val(resp.id)].user_id # IntOf(resp.caller)

\* C2: a PUT or DELETE by the owner on a record whose status is 'under
\* investigation', 'rejected' or 'resolved' returns 400 and leaves the store
\* as it was.
C2_LockedRejected ==
    [][ ((OnExisting("PUT") \/ OnExisting("DELETE"))
            /\ records[Val(resp'.id)].user_id = IntOf(resp'.caller)
            /\ records[Val(resp'.id)].status \in {"under investigation", "rejected", "resolved"})
        => (resp'.code = 400 /\ records' = records) ]_vars

\* the owner has been refused the deletion of a resolved record
C2_Witness ==
    /\ resp.op = "DELETE"
    /\ resp.code = 400
    /\ Val(resp.id) \in DOMAIN records
    /\ records[Val(resp.id)].user_id = IntOf(resp.caller)
    /\ records[Val(resp.id)].status = "resolved"

\* C3: a GET with a record id returns 404 when no such record exists, 403
\* when the record exists and the caller is neither its owner nor an admin,
\* and 200 with the record's projection otherwise.
C3_GetById ==
    [][ (resp'.op = "GET" /\ resp'.id # None)
        => IF Val(resp'.id) \notin DOMAIN records
           THEN resp'.code = 404
           ELSE IF records[Val(resp'.id)].user_id # IntOf(resp'.caller)
                   /\ users[IntOf(resp'.caller)].role # "admin"
                THEN resp'.code = 403
                ELSE /\ resp'.code = 200
                     /\ resp'.body = [kind |-> "record",
                                      record |-> format_record(Val(resp'.id), records[Val(resp'.id)])]
      ]_vars

\* C4: a GET without a record id returns all stored records to an admin and
\* exactly the caller's own records to anyone else, whatever page and
\* per_page are.
C4_ListAll ==
    [][ (resp'.op = "GET" /\ resp'.id = None)
        => LET ids == IF users[IntOf(resp'.caller)].role = "admin" THEN DOMAIN records
                      ELSE {i \in DOMAIN records : records[i].user_id = IntOf(resp'.caller)}
           IN  /\ resp'.code = 200
               /\ resp'.body.kind = "list"
               /\ Len(resp'.body.records) = Cardinality(ids)
               /\ {resp'.body.records[k] : k \in 1..Len(resp'.body.records)}
                    = {format_record(i, records[i]) : i \in ids}
      ]_vars

\* C5: a POST with type 'Red-Flag' or 'Intervention' and any supplied
\* latitude/longitude in range, during which nothing raises, returns 201 and
\* stores exactly one new record, with status 'pending' and the caller as
\* user_id, which is the record returned, whatever status or owner the
\* request supplies.
C5_CreatePending ==
    [][ (/\ resp'.op = "POST"
         /\ resp'.form.type \in {Some(RedFlag), Some(Intervention)}
         /\ ~LatOutOfRange(resp'.form)
         /\ ~LngOutOfRange(resp'.form)
         /\ resp'.fail = "none")
        => /\ resp'.code = 201
           /\ \E id \in DOMAIN records' \ DOMAIN records :
                /\ DOMAIN records' = DOMAIN records \cup {id}
                /\ \A i \in DOMAIN records : records'[i] = records[i]
                /\ records'[id].status = "pending"
                /\ records'[id].user_id = IntOf(resp'.caller)
                /\ resp'.body = [kind |-> "created", record |-> format_record(id, records'[id])]
      ]_vars

\* a create that supplied a status and an owner of its own has succeeded
C5_Witness ==
    /\ resp.op = "POST"
    /\ resp.code = 201
    /\ resp.form.status = Some("resolved")
    /\ resp.form.user_id # None
    /\ Val(resp.form.user_id) # resp.caller
    /\ \E id \in DOMAIN records : resp.body.record = format_record(id, records[id])

\* C6: a create, or an update by the owner of an existing unlocked record,
\* that supplies a latitude outside [-90,90] or a longitude outside
\* [-180,180] returns 400; such a create stores no record.
C6_OutOfRangeRejected ==
    [][ /\ (resp'.op = "POST" /\ (LatOutOfRange(resp'.form) \/ LngOutOfRange(resp'.form)))
           => (resp'.code = 400 /\ records' = records)
        /\ (ByOwnerUnlocked("PUT") /\ (LatOutOfRange(resp'.form) \/ LngOutOfRange(resp'.form)))
           => resp'.code = 400
      ]_vars

\* the owner's update with a longitude of 181 has been refused after the
\* type and the latitude passed their checks
C6_Witness ==
    /\ resp.op = "PUT"
    /\ resp.code = 400
    /\ resp.form.longitude = Some(181)
    /\ resp.form.type = Some(Intervention)
    /\ Val(resp.id) \in DOMAIN records
    /\ records[Val(resp.id)].user_id = IntOf(resp.caller)
    /\ records[Val(resp.id)].status = "pending"

\* C7: every stored record's type is exactly 'Red-Flag' or 'Intervention'.
C7_TypeCanonical ==
    \A i \in DOMAIN records : records[i].type \in {RedFlag, Intervention}

\* an update that spelled the type in capitals has stored 'Intervention'
C7_Witness ==
    /\ resp.op = "PUT"
    /\ resp.code = 200
    /\ resp.form.type = Some(<<"I","N","T","E","R","V","E","N","T","I","O","N">>)
    /\ records[Val(resp.id)].type = Intervention

\* C8: after a successful update that uploads one or more files the images
\* are exactly the URLs of the uploaded files in submission order; after a
\* successful update that uploads no file the images are unchanged.
C8_ImagesReplaced ==
    [][ (OnExisting("PUT") /\ resp'.code = 200)
        => LET uploaded == SelectSeq(resp'.files, LAMBDA f : f.filename # "")
           IN  IF uploaded # <<>>
               THEN records'[Val(resp'.id)].images
                      = [k \in 1..Len(uploaded) |-> [url |-> uploaded[k].filename]]
               ELSE records'[Val(resp'.id)].images = records[Val(resp'.id)].images
      ]_vars

\* C9: an update by the owner of an existing unlocked record returns 400 when
\* any of type, title, description, latitude, longitude is absent, and returns
\* 200 with the supplied values stored whenever all five are supplied with a
\* valid type and coordinates in range, zero and the boundaries included.
\* (The success half is stated for non-empty text fields only.)
C9_UpdateFields ==
    [][ ByOwnerUnlocked("PUT")
        => LET f == resp'.form
               absent == \/ f.type = None \/ f.title = None \/ f.description = None
                         \/ f.latitude = None \/ f.longitude = None
           IN  /\ absent => resp'.code = 400
               /\ (/\ ~absent
                   /\ Val(f.title) # <<>>
                   /\ Val(f.description) # <<>>
                   /\ Lower(Val(f.type)) \in {Lower(RedFlag), Lower(Intervention)}
                   /\ ~LatOutOfRange(f)
                   /\ ~LngOutOfRange(f)
                   /\ resp'.fail = "none")
                  => /\ resp'.code = 200
                     /\ records'[Val(resp'.id)].latitude = f.latitude
                     /\ records'[Val(resp'.id)].longitude = f.longitude
                     /\ records'[Val(resp'.id)].title = Strip(Val(f.title))
                     /\ records'[Val(resp'.id)].description = Strip(Val(f.description))
                     /\ Lower(records'[Val(resp'.id)].type) = Lower(Val(f.type))
      ]_vars

====
